---- MODULE Spec2Model ----
(***************************************************************************)
(* Trade lifecycle of chia/wallet/trade_manager.py (TradeManager): offer   *)
(* construction, taking an offer, cancellation and the reconciliation of   *)
(* trades against coin-state events.                                       *)
(*                                                                         *)
(* Spec      : every handler call runs to completion before the next one   *)
(*             starts (the per-trade mutual exclusion of the design).      *)
(* SpecAsync : coins_of_interest_farmed and cancel_pending_offer_safely    *)
(*             are split at their await points and interleave with the     *)
(*             other handlers on the one event loop.                       *)
(***************************************************************************)
EXTENDS Integers, Sequences, FiniteSets, TLC

VARIABLES trades, txs, made, recon, canc, resp, last

vars == <<trades, txs, made, recon, canc, resp, last>>

-----------------------------------------------------------------------------
(* Bounds of the model *)

\* highest block height the ledger reports
MaxHeight == 1
\* most trade records the store holds
MaxTrades == 2
\* most entries of an offer map handed to create_offer_for_ids
MaxEntries == 2

Heights == 1..MaxHeight

-----------------------------------------------------------------------------
(* Optional values: Python's None is the empty set, a value v is {v} *)

None == {}
Some(v) == {v}
OptHeights == {None} \cup {Some(h) : h \in Heights}

-----------------------------------------------------------------------------
(* TradeStatus *)

PENDING_ACCEPT == "PENDING_ACCEPT"
PENDING_CONFIRM == "PENDING_CONFIRM"
PENDING_CANCEL == "PENDING_CANCEL"
CANCELLED == "CANCELLED"
CONFIRMED == "CONFIRMED"
FAILED == "FAILED"

TradeStatus == {PENDING_ACCEPT, PENDING_CONFIRM, PENDING_CANCEL, CANCELLED, CONFIRMED, FAILED}
PendingStatuses == {PENDING_ACCEPT, PENDING_CONFIRM, PENDING_CANCEL}
TerminalStatuses == {CANCELLED, CONFIRMED, FAILED}

-----------------------------------------------------------------------------
(* The wallets of the wallet state manager, and the coins they hold *)

STANDARD_WALLET == "STANDARD_WALLET"
CAT == "CAT"
POOLING_WALLET == "POOLING_WALLET"

\* asset id None is the base currency
XCH == "None"
AssetIds == {"a1", "a2", "a3"}
Assets == {XCH} \cup AssetIds

\* keys of an offer map are wallet ids (ints) or asset ids (bytes32)
WalletIds == {"1", "2", "3", "4"}
IsInt(id) == id \in WalletIds

\* wallet "1" is the main wallet; "2" holds asset a1 and is fully integrated;
\* "3" has no get_asset_id; "4" holds a2 but has neither get_puzzle_info nor
\* get_coins_to_offer.
Wallets ==
  [w \in WalletIds |->
     CASE w = "1" -> [id |-> "1", type |-> STANDARD_WALLET, asset |-> XCH,
                      caps |-> {"get_coins_to_offer"}]
       [] w = "2" -> [id |-> "2", type |-> CAT, asset |-> "a1",
                      caps |-> {"get_asset_id", "get_puzzle_info", "get_coins_to_offer"}]
       [] w = "3" -> [id |-> "3", type |-> POOLING_WALLET, asset |-> XCH,
                      caps |-> {}]
       [] w = "4" -> [id |-> "4", type |-> CAT, asset |-> "a2",
                      caps |-> {"get_asset_id"}]]

NoWallet == [id |-> "0", type |-> "NoneType", asset |-> XCH, caps |-> {}]
main_wallet == Wallets["1"]

\* a wallet made by create_wallet_for_puzzle_info for an asset met in an offer
NewWallet(asset) ==
  [id |-> asset, type |-> CAT, asset |-> asset,
   caps |-> {"get_asset_id", "get_puzzle_info", "get_coins_to_offer"}]

\* wallet_state_manager.get_wallet_for_asset_id, with the wallets made so far
get_wallet_for_asset_id(asset, created) ==
  IF \E w \in WalletIds : Wallets[w].type = CAT /\ Wallets[w].asset = asset
  THEN Wallets[CHOOSE w \in WalletIds : Wallets[w].type = CAT /\ Wallets[w].asset = asset]
  ELSE IF asset \in created THEN NewWallet(asset)
  ELSE NoWallet

\* coins 1 and 2 are in this wallet's coin store, coin 3 is the counterpart's
OurCoins == {1, 2}
TheirCoins == {3}
PrimaryCoins == OurCoins \cup TheirCoins
CoinStore == OurCoins

CoinWallet(c) == IF c = 1 THEN "1" ELSE IF c = 2 THEN "2" ELSE "0"
CoinAmount(c) == 2

\* the settlement-payment coin created by spending primary coin c, and back
SettlementOf(c) == c + 10
get_root_removal(s) == s - 10
SettlementCoins == {SettlementOf(c) : c \in PrimaryCoins}
OurSettlementCoins == {SettlementOf(c) : c \in OurCoins}

-----------------------------------------------------------------------------
(* Offer (chia/wallet/trading/offer.py): the requested payments per asset,  *)
(* the coins the bundle spends and the puzzle drivers.  primary are the     *)
(* root removals of the offered coins; ephemeral are the settlement coins   *)
(* the bundle itself spends (none before the offer is completed); to_us    *)
(* are the assets whose requested payments go to puzzle hashes of this      *)
(* wallet.                                                                  *)

NoDriver == <<"absent">>
PuzzleInfoOf(asset) == <<"CAT", asset>>
WrongInfoOf(asset) == <<"NFT", asset>>
NoDrivers == [a \in AssetIds |-> NoDriver]
NoPayments == [a \in Assets |-> <<>>]
NoAmounts == [a \in Assets |-> 0]

RECURSIVE SumSeq(_)
SumSeq(s) == IF s = <<>> THEN 0 ELSE Head(s) + SumSeq(Tail(s))

get_primary_coins(offer) == offer.primary
get_offered_coins(offer) == {SettlementOf(c) : c \in offer.primary}
removals(offer) == offer.primary \cup offer.ephemeral
\* the removals that no addition of the bundle creates
get_involved_coins(offer) == removals(offer) \ {SettlementOf(c) : c \in removals(offer)}
OfferName(offer) == offer.name
OfferBytes(offer) == [blob |-> offer]
Offer_from_bytes(b) == b.blob

\* Offer.arbitrage: offered minus requested, per asset the offer mentions
ArbitrageKeys(offer) ==
  {a \in Assets : offer.requested[a] # <<>> \/ offer.offered[a] > 0}
arbitrage(offer) ==
  [a \in ArbitrageKeys(offer) |-> offer.offered[a] - SumSeq(offer.requested[a])]

\* Offer.aggregate of a foreign offer and its complement, completed
Offer_aggregate(name, o1, o2) ==
  [name |-> name,
   primary |-> o1.primary \cup o2.primary,
   ephemeral |-> {SettlementOf(c) : c \in o1.primary \cup o2.primary},
   requested |-> [a \in Assets |-> o1.requested[a] \o o2.requested[a]],
   offered |-> [a \in Assets |-> o1.offered[a] + o2.offered[a]],
   to_us |-> o1.to_us \cup o2.to_us,
   driver_dict |-> [a \in AssetIds |->
                      IF o1.driver_dict[a] # NoDriver THEN o1.driver_dict[a]
                      ELSE o2.driver_dict[a]]]

\* Offer.is_valid: no asset is requested beyond what is offered
is_valid(offer) == \A a \in ArbitrageKeys(offer) : arbitrage(offer)[a] >= 0

-----------------------------------------------------------------------------
(* The ledger, as wallet_node.get_coin_state reports it.  The ledger is not *)
(* state of the manager: a reply lists, in some order, a CoinState for each  *)
(* of the asked coins the ledger knows, spent (at a height) or unspent.      *)

CoinStates(ids) == [coin : ids, spent_height : OptHeights]

get_coin_state(ids) ==
  {r \in UNION {[1..n -> CoinStates(ids)] : n \in 0..Cardinality(ids)} :
     \A i, j \in 1..Len(r) : r[i].coin = r[j].coin => i = j}

-----------------------------------------------------------------------------
(* TradeStore: the trade records, in the order get_all_trades lists them *)

get_trade_record(ts, trade_id) ==
  LET I == {i \in 1..Len(ts) : ts[i].trade_id = trade_id}
  IN IF I = {} THEN None ELSE Some(ts[CHOOSE i \in I : TRUE])

StatusOf(ts, trade_id) ==
  LET r == get_trade_record(ts, trade_id)
  IN IF r = None THEN "none" ELSE (CHOOSE t \in r : TRUE).status

\* TradeStore.set_status(trade_id, status, in_transaction, index = 0)
set_status(ts, trade_id, status, index) ==
  [i \in 1..Len(ts) |->
     IF ts[i].trade_id = trade_id
     THEN [ts[i] EXCEPT !.status = status,
                        !.confirmed_at_index = IF index # Some(0) THEN index ELSE @]
     ELSE ts[i]]

\* TradeStore.add_trade_record: insert, or replace the record of the same id
add_trade_record(ts, trade) ==
  IF get_trade_record(ts, trade.trade_id) = None
  THEN Append(ts, trade)
  ELSE [i \in 1..Len(ts) |-> IF ts[i].trade_id = trade.trade_id THEN trade ELSE ts[i]]

get_offers_with_status(ts, status) == {ts[i] : i \in {j \in 1..Len(ts) : ts[j].status = status}}

-----------------------------------------------------------------------------
(* The transaction store of the wallet state manager *)

\* add_transaction / add_pending_transaction: insert or replace by name
add_transaction(store, tx) == {t \in store : t.name # tx.name} \cup {tx}

RECURSIVE add_transactions(_, _)
add_transactions(store, new) ==
  IF new = {} THEN store
  ELSE LET tx == CHOOSE t \in new : TRUE
       IN add_transactions(add_transaction(store, tx), new \ {tx})

delete_trade_transactions(store, trade_id) == {t \in store : t.trade_id # Some(trade_id)}

-----------------------------------------------------------------------------
(* calculate_tx_records_for_offer *)

\* the wallets of this side that own a removal of the offer
RemovalWallets(offer) == {CoinWallet(c) : c \in removals(offer) \cap CoinStore}

\* One OUTGOING_TRADE record per wallet of this side with removals, named after
\* the bundle (to_valid_spend when validate, offer.bundle otherwise) and the
\* removals; with the settlement coins spent (validate) one INCOMING_TRADE
\* record per payment they make to a puzzle hash of this side.
calculate_tx_records_for_offer(offer, validate) ==
  LET bundle == IF validate THEN "to_valid_spend" ELSE "bundle"
  IN {[name |-> <<"OUTGOING_TRADE", bundle, OfferName(offer), w>>,
       trade_id |-> Some(OfferName(offer)),
       confirmed |-> FALSE,
       confirmed_at_height |-> Some(0)] : w \in RemovalWallets(offer)}
     \cup
     {[name |-> <<"INCOMING_TRADE", bundle, OfferName(offer), a>>,
       trade_id |-> Some(OfferName(offer)),
       confirmed |-> FALSE,
       confirmed_at_height |-> Some(0)] :
        a \in IF validate THEN offer.to_us ELSE {}}

-----------------------------------------------------------------------------
(* get_trade_by_coin and the decision of coins_of_interest_farmed *)

\* get_trade_by_coin without the test of the status
get_trade_by_coin_any_status(ts, coin) ==
  LET I == {i \in 1..Len(ts) : coin \in ts[i].coins_of_interest}
  IN IF I = {} THEN None
     ELSE Some(ts[CHOOSE i \in I : \A j \in I : i <= j])

\* the first trade of the store that is not CANCELLED and watches the coin
get_trade_by_coin(ts, coin) ==
  LET I == {i \in 1..Len(ts) : ts[i].status # CANCELLED /\ coin \in ts[i].coins_of_interest}
  IN IF I = {} THEN None
     ELSE Some(ts[CHOOSE i \in I : \A j \in I : i <= j])

\* the settlement payments that descend from primary coins of our coin store
our_settlement_ids(offer) ==
  LET our_primary_coins == {c \in get_primary_coins(offer) : c \in CoinStore}
  IN {s \in get_offered_coins(offer) : get_root_removal(s) \in our_primary_coins}

coin_state_names(coin_states) == {coin_states[i].coin : i \in 1..Len(coin_states)}

\* "If any of our settlement_payments were spent, this offer was a success!"
offer_was_success(settlement_ids, coin_states) ==
  settlement_ids \cap coin_state_names(coin_states) # {}

\* confirmed_tx_records without the test of the trade's status
confirmed_tx_records_unguarded(store, trade, height) ==
  add_transactions(store,
    {[tx EXCEPT !.confirmed_at_height = height, !.confirmed = TRUE] :
       tx \in calculate_tx_records_for_offer(Offer_from_bytes(trade.offer), FALSE)})

\* the transaction records the success branch stores
confirmed_tx_records(store, trade, height) ==
  IF trade.status = PENDING_ACCEPT
  THEN add_transactions(store,
         {[tx EXCEPT !.confirmed_at_height = height, !.confirmed = TRUE] :
            tx \in calculate_tx_records_for_offer(Offer_from_bytes(trade.offer), FALSE)})
  ELSE store

\* failed_status with the two statuses exchanged
failed_status_swapped(status) ==
  IF status = PENDING_CANCEL THEN Some(FAILED)
  ELSE IF status = PENDING_CONFIRM THEN Some(CANCELLED)
  ELSE None

\* failed_status with a plain else for the second test
failed_status_else(status) ==
  IF status = PENDING_CANCEL THEN Some(CANCELLED) ELSE Some(FAILED)

\* the status the failure branch writes for a trade read with this status
\* (None: it writes nothing)
failed_status(status) ==
  IF status = PENDING_CANCEL THEN Some(CANCELLED)
  ELSE IF status = PENDING_CONFIRM THEN Some(FAILED)
  ELSE None

\* the trade store after the status write of coins_of_interest_farmed, decided
\* on the trade record read at the start of the call
farmed_trades(ts, trade, coin_states) ==
  IF offer_was_success(our_settlement_ids(Offer_from_bytes(trade.offer)), coin_states)
  THEN set_status(ts, trade.trade_id, CONFIRMED, coin_states[1].spent_height)
  ELSE IF failed_status(trade.status) = None THEN ts
       ELSE set_status(ts, trade.trade_id,
                       CHOOSE st \in failed_status(trade.status) : TRUE, Some(0))

\* the transaction store after coins_of_interest_farmed
farmed_txs(store, trade, coin_states) ==
  IF offer_was_success(our_settlement_ids(Offer_from_bytes(trade.offer)), coin_states)
  THEN confirmed_tx_records(store, trade, coin_states[1].spent_height)
  ELSE delete_trade_transactions(store, trade.trade_id)

-----------------------------------------------------------------------------
(* get_coins_of_interest, get_locked_coins *)

\* all_pending with the confirmed trades added
all_pending_and_confirmed(ts) ==
  get_offers_with_status(ts, PENDING_ACCEPT) \cup get_offers_with_status(ts, PENDING_CONFIRM)
    \cup get_offers_with_status(ts, PENDING_CANCEL) \cup get_offers_with_status(ts, CONFIRMED)

all_pending(ts) ==
  get_offers_with_status(ts, PENDING_ACCEPT) \cup get_offers_with_status(ts, PENDING_CONFIRM)
    \cup get_offers_with_status(ts, PENDING_CANCEL)

get_coins_of_interest(ts) == UNION {t.coins_of_interest : t \in all_pending(ts)}

get_locked_coins(ts) ==
  UNION {get_involved_coins(Offer_from_bytes(t.offer)) : t \in all_pending(ts)} \cap CoinStore

-----------------------------------------------------------------------------
(* _create_offer_for_ids *)

RECURSIVE CoinsTotal(_)
CoinsTotal(S) ==
  IF S = {} THEN 0
  ELSE LET c == CHOOSE x \in S : TRUE IN CoinAmount(c) + CoinsTotal(S \ {c})

\* wallet.get_coins_to_offer(asset_id, amount, fee): the wallet's coins that no
\* pending trade locks, when they cover amount + fee; the empty set stands for
\* the wallet raising for lack of funds
get_coins_to_offer(wallet, amount, fee, locked) ==
  LET free == {c \in CoinStore : CoinWallet(c) = wallet.id /\ c \notin locked}
  IN IF CoinsTotal(free) >= amount + fee THEN free ELSE {}

Abs(n) == IF n < 0 THEN 0 - n ELSE n

NewBuild(driver_dict, fee) ==
  [coins_to_offer |-> <<>>, requested_payments |-> NoPayments, offered |-> NoAmounts,
   to_us |-> {}, fee_left_to_pay |-> fee, wallet_paying_fee |-> "unset",
   driver_dict |-> driver_dict, coin_queries |-> <<>>, error |-> ""]

Raise(b, message) == [b EXCEPT !.error = message]

\* reconcile_driver that writes the wallet's puzzle info over any entry
reconcile_driver_overwrite(b, asset_id, wallet) ==
  IF asset_id # XCH /\ wallet # NoWallet
  THEN IF "get_puzzle_info" \in wallet.caps
       THEN [b EXCEPT !.driver_dict[asset_id] = PuzzleInfoOf(asset_id)]
       ELSE Raise(b, "Wallet is not properly integrated with TradeManager")
  ELSE b

\* lines 381-391: the driver of the entry's asset against driver_dict
reconcile_driver(b, asset_id, wallet) ==
  IF asset_id # XCH /\ wallet # NoWallet
  THEN IF "get_puzzle_info" \in wallet.caps
       THEN IF b.driver_dict[asset_id] # NoDriver /\ b.driver_dict[asset_id] # PuzzleInfoOf(asset_id)
            THEN Raise(b, "driver_dict specified a different driver")
            ELSE [b EXCEPT !.driver_dict[asset_id] = PuzzleInfoOf(asset_id)]
       ELSE Raise(b, "Wallet is not properly integrated with TradeManager")
  ELSE b

\* lines 335-391: one entry (id, solver) of the offer map
offer_entry(b, id, solver, locked, created) ==
  LET wallet == IF IsInt(id) THEN Wallets[id] ELSE get_wallet_for_asset_id(id, created)
      no_asset_id == IsInt(id) /\ wallet.type # STANDARD_WALLET
                     /\ "get_asset_id" \notin wallet.caps
      asset_id == IF IsInt(id)
                  THEN (IF wallet.type = STANDARD_WALLET THEN XCH ELSE wallet.asset)
                  ELSE id
      coins == get_coins_to_offer(wallet, Abs(solver), b.fee_left_to_pay, locked)
      queried == [b EXCEPT !.coin_queries = Append(@, [id |-> id, fee |-> b.fee_left_to_pay])]
  IN IF solver > 0
     THEN IF no_asset_id
          THEN Raise(b, "Cannot request assets from wallet without more information")
          ELSE reconcile_driver(
                 [b EXCEPT !.requested_payments[asset_id] = <<solver>>,
                           !.to_us = @ \cup {asset_id}],
                 asset_id, wallet)
     ELSE IF no_asset_id
          THEN Raise(b, "Cannot offer assets from wallet without more information")
          ELSE IF solver = 0
          THEN Raise(b, "You cannot offer nor request 0 amount of something")
          ELSE IF "get_coins_to_offer" \notin wallet.caps
          THEN Raise(b, "Cannot offer coins from wallet")
          ELSE IF coins = {}
          THEN Raise(queried, "insufficient funds")
          ELSE reconcile_driver(
                 [queried EXCEPT !.coins_to_offer = Append(@, [id |-> id, coins |-> coins]),
                                 !.offered[asset_id] = @ + Abs(solver),
                                 !.fee_left_to_pay = 0,
                                 !.wallet_paying_fee = id],
                 asset_id, wallet)

\* the loop of lines 334-391, left at the first entry that raises
RECURSIVE offer_entries(_, _, _, _)
offer_entries(b, entries, locked, created) ==
  IF entries = <<>> \/ b.error # "" THEN b
  ELSE offer_entries(offer_entry(b, Head(entries).id, Head(entries).solver, locked, created),
                     Tail(entries), locked, created)

\* lines 400-415: the fee each create_offer_transactions call receives
offer_transaction_fees(b, fee) ==
  [i \in 1..Len(b.coins_to_offer) |->
     [id |-> b.coins_to_offer[i].id,
      fee |-> IF b.coins_to_offer[i].id = b.wallet_paying_fee THEN fee ELSE 0]]

\* (success, offer, error) of _create_offer_for_ids, with the calls it made
create_offer_for_ids_inner(offer_dict, driver_dict, fee, name, locked, created) ==
  LET b == offer_entries(NewBuild(driver_dict, fee), offer_dict, locked, created)
  IN [success |-> b.error = "",
      error |-> b.error,
      coin_queries |-> b.coin_queries,
      tx_fees |-> IF b.error = "" THEN offer_transaction_fees(b, fee) ELSE <<>>,
      offer |-> [name |-> name,
                 primary |-> UNION {b.coins_to_offer[i].coins : i \in 1..Len(b.coins_to_offer)},
                 ephemeral |-> {},
                 requested |-> b.requested_payments,
                 offered |-> b.offered,
                 to_us |-> b.to_us,
                 driver_dict |-> b.driver_dict]]

-----------------------------------------------------------------------------
(* Inputs *)

\* coin-state events: a watched coin and the height of its spend, if spent
CoinStateEvents == [coin : PrimaryCoins, spent_height : OptHeights]

OfferKeys == {"1", "2", "3", "4", "a1", "a3"}
Entry(id, solver) == [id |-> id, solver |-> solver]
Solvers == {0 - 1, 0, 1}
Fees == {0, 1}

\* offer maps: up to MaxEntries entries with distinct keys, in iteration order
OfferMaps ==
  UNION {{m \in [1..n -> [id : OfferKeys, solver : Solvers]] :
            \A i, j \in 1..n : m[i].id = m[j].id => i = j} : n \in 1..MaxEntries}

DriverDicts ==
  {NoDrivers, [NoDrivers EXCEPT !["a1"] = PuzzleInfoOf("a1")],
   [NoDrivers EXCEPT !["a1"] = WrongInfoOf("a1")]}

\* the offers of counterparts: each spends their coin 3
ForeignOffer(name, asks, asked, gives, given, info) ==
  [name |-> name, primary |-> TheirCoins, ephemeral |-> {},
   requested |-> [NoPayments EXCEPT ![asks] = <<asked>>],
   offered |-> [NoAmounts EXCEPT ![gives] = given],
   to_us |-> {},
   driver_dict |-> [a \in AssetIds |-> IF a \in {asks, gives} THEN info[a] ELSE NoDriver]]

RightInfo == [a \in AssetIds |-> PuzzleInfoOf(a)]
WrongInfo == [a \in AssetIds |-> WrongInfoOf(a)]

ForeignOffers ==
  {ForeignOffer(101, "a1", 1, XCH, 1, RightInfo),
   ForeignOffer(102, "a3", 1, XCH, 1, RightInfo),
   ForeignOffer(103, XCH, 1, "a3", 1, RightInfo),
   ForeignOffer(104, "a1", 1, XCH, 1, WrongInfo),
   [ForeignOffer(105, "a1", 1, XCH, 1, RightInfo) EXCEPT !.ephemeral = {SettlementOf(3)}]}

\* the offer maps and foreign offers of the lifecycle specifications: one
\* successful map per set of offered coins and one map per construction failure
LifecycleMaps ==
  {<<Entry("1", 0 - 1), Entry("a1", 1)>>,
   <<Entry("2", 0 - 1), Entry("1", 1)>>,
   <<Entry("1", 0 - 1), Entry("2", 0 - 1)>>,
   <<Entry("1", 0)>>,
   <<Entry("3", 1)>>,
   <<Entry("4", 0 - 1)>>,
   <<Entry("4", 1)>>}

LifecycleDrivers == {NoDrivers, [NoDrivers EXCEPT !["a1"] = WrongInfoOf("a1")]}

LifecycleOffers ==
  {ForeignOffer(101, "a1", 1, XCH, 1, RightInfo),
   ForeignOffer(102, "a3", 1, XCH, 1, RightInfo)}

\* lists of distinct primary coins, and those by ascending coin
Orders ==
  UNION {{order \in [1..n -> PrimaryCoins] :
            \A i, j \in 1..n : order[i] = order[j] => i = j} :
         n \in 0..Cardinality(PrimaryCoins)}
LifecycleOrders ==
  {order \in Orders : \A i, j \in 1..Len(order) : i < j => order[i] < order[j]}

-----------------------------------------------------------------------------
(* What the last completed call did and saw *)

\* offer_dict, driver_dict, fee: the arguments of the last construction (fee
\* also: the fee of the last safe cancel); coin_queries, tx_fees: the
\* get_coins_to_offer and create_offer_transactions calls it made, in order,
\* with the fee each received; offer, coin_states: the offer handed to
\* respond_to_offer and the ledger's reply to its validity check; spends: the
\* generate_signed_transaction calls of the last safe cancel, in order
NoLast ==
  [op |-> "init", trade_id |-> 0, coin |-> 0, spent_height |-> None, success |-> FALSE,
   ours_spent |-> FALSE, repeat |-> FALSE, result |-> "",
   offer_dict |-> <<>>, driver_dict |-> NoDrivers, fee |-> 0,
   coin_queries |-> <<>>, tx_fees |-> <<>>, offer |-> 0, coin_states |-> <<>>,
   spends |-> <<>>]

FarmedLast(trade, coin_state, coin_states) ==
  LET ids == our_settlement_ids(Offer_from_bytes(trade.offer))
  IN [NoLast EXCEPT
        !.op = "coins_of_interest_farmed",
        !.trade_id = trade.trade_id,
        !.coin = coin_state.coin,
        !.spent_height = coin_state.spent_height,
        !.success = offer_was_success(ids, coin_states),
        !.ours_spent = \E i \in 1..Len(coin_states) :
                         coin_states[i].coin \in ids /\ coin_states[i].spent_height # None,
        !.repeat = /\ last.op = "coins_of_interest_farmed"
                   /\ last.success
                   /\ last.trade_id = trade.trade_id
                   /\ last.coin = coin_state.coin
                   /\ last.spent_height = coin_state.spent_height
                   /\ offer_was_success(ids, coin_states)]

-----------------------------------------------------------------------------
(* Initial state: an empty trade store, no transactions, no handler in flight *)

Idle == [pc |-> "idle", trade |-> None, coin_state |-> None, coin_states |-> <<>>]

\* no respond_to_offer call suspended at an await
NoResponse == [pc |-> "idle", offer |-> None, done |-> NoLast]

Init ==
  /\ trades = <<>>
  /\ txs = {}
  /\ made = {}
  /\ recon = Idle
  /\ canc = Idle
  /\ resp = NoResponse
  /\ last = NoLast

-----------------------------------------------------------------------------
(* coins_of_interest_farmed(coin_state, fork_height), run to completion.    *)
(* fork_height only travels on to wallet_node.get_coin_state, whose reply   *)
(* is any reply the ledger can give.                                        *)

coins_of_interest_farmed(coin_state) ==
  /\ recon.pc = "idle" /\ canc.pc = "idle"
  /\ LET found == get_trade_by_coin(trades, coin_state.coin)
     IN IF found = None
        THEN /\ UNCHANGED <<trades, txs>>
             /\ last' = [NoLast EXCEPT !.op = "coins_of_interest_farmed",
                                       !.coin = coin_state.coin,
                                       !.spent_height = coin_state.spent_height]
        ELSE LET trade == CHOOSE t \in found : TRUE
                 ids == our_settlement_ids(Offer_from_bytes(trade.offer))
             IN \E coin_states \in get_coin_state(ids) :
                  /\ trades' = farmed_trades(trades, trade, coin_states)
                  /\ txs' = farmed_txs(txs, trade, coin_states)
                  /\ last' = FarmedLast(trade, coin_state, coin_states)
  /\ UNCHANGED <<made, recon, canc, resp>>

-----------------------------------------------------------------------------
(* cancel_pending_offer(trade_id) *)

cancel_pending_offer(trade_id) ==
  /\ trades' = set_status(trades, trade_id, CANCELLED, Some(0))
  /\ last' = [NoLast EXCEPT !.op = "cancel_pending_offer", !.trade_id = trade_id]
  /\ UNCHANGED <<txs, made, recon, canc, resp>>

-----------------------------------------------------------------------------
(* cancel_pending_offer_safely(trade_id, fee) *)

\* wallet_state_manager.get_wallet_for_coin
get_wallet_for_coin(c) == IF c \in CoinStore THEN Wallets[CoinWallet(c)] ELSE NoWallet

\* lines 218-272: per primary coin with a wallet, the wallet's spend of the coin
\* to a new puzzle hash and the record of the coin it creates
cancel_txs(trade) ==
  LET coins == {c \in get_primary_coins(Offer_from_bytes(trade.offer)) :
                  get_wallet_for_coin(c) # NoWallet}
  IN {[name |-> <<kind, "cancel", c, CoinWallet(c)>>,
       trade_id |-> None,
       confirmed |-> FALSE,
       confirmed_at_height |-> Some(0)] : kind \in {"OUTGOING_TX", "INCOMING_TX"}, c \in coins}

\* lines 274-277: the pending transactions and the status write
cancel_safely_txs(store, trade) == add_transactions(store, cancel_txs(trade))
cancel_safely_trades(ts, trade) == set_status(ts, trade.trade_id, PENDING_CANCEL, Some(0))

\* further coins the main wallet may hold when a cancellation is paid for
SpareCoins == {4, 5}

\* the fees a cancellation is called with: none, below and above a coin's amount
CancelFees == {0, 1, 3}

\* the puzzle hash a coin of the coin store was paid to, and
\* wallet.get_new_puzzlehash: the next derived puzzle hash of the wallet
PuzzleHashOf(coin) == <<CoinWallet(coin), "derived", 0>>
get_new_puzzlehash(wallet, index) == <<wallet.id, "derived", index>>

\* Offer.get_primary_coins as a list: the primary coins in any order
primary_orders(offer) ==
  LET coins == get_primary_coins(offer)
  IN {order \in [1..Cardinality(coins) -> coins] :
        \A i, j \in 1..Cardinality(coins) : order[i] = order[j] => i = j}

\* the orders by ascending coin
sorted_orders(offer) ==
  {order \in primary_orders(offer) :
     \A i, j \in 1..Len(order) : i < j => order[i] < order[j]}

\* lines 226-249: the generate_signed_transaction call for one primary coin;
\* selected is the reply of wallet.select_coins
cancel_spend(coin, wallet, fee_to_pay, selected, new_ph) ==
  IF wallet.type = STANDARD_WALLET
  THEN LET selected_coins == IF fee_to_pay > CoinAmount(coin)
                             THEN selected \cup {coin} ELSE {coin}
       IN [coin |-> coin, wallet |-> wallet.id, fee |-> fee_to_pay,
           coins |-> selected_coins,
           amount |-> CoinsTotal(selected_coins) - fee_to_pay,
           puzzle_hash |-> new_ph]
  ELSE [coin |-> coin, wallet |-> wallet.id, fee |-> fee_to_pay, coins |-> {coin},
        amount |-> CoinAmount(coin), puzzle_hash |-> new_ph]

\* fee_to_pay carried on to the next coin
fee_after_spend_kept(fee_to_pay) == fee_to_pay

\* line 250: fee_to_pay after a coin was spent
fee_after_spend(fee_to_pay) == 0

\* the loop of lines 220-250: a coin without a wallet is passed over, and
\* fee_to_pay is 0 after the first coin that has one
RECURSIVE cancel_spends(_, _, _, _)
cancel_spends(order, fee_to_pay, selected, index) ==
  IF order = <<>> THEN <<>>
  ELSE LET coin == Head(order)
           wallet == get_wallet_for_coin(coin)
       IN IF wallet = NoWallet
          THEN cancel_spends(Tail(order), fee_to_pay, selected, index)
          ELSE <<cancel_spend(coin, wallet, fee_to_pay, selected,
                              get_new_puzzlehash(wallet, index))>>
                 \o cancel_spends(Tail(order), fee_after_spend(fee_to_pay), selected,
                                  index + 1)

\* wallet.select_coins(amount, exclude) raises when the wallet's other coins
\* do not cover the amount, and uint64 raises on a negative amount
cancel_raises(spends) ==
  \E i \in 1..Len(spends) :
    \/ spends[i].amount < 0
    \/ /\ spends[i].fee > CoinAmount(spends[i].coin)
       /\ Wallets[spends[i].wallet].type = STANDARD_WALLET
       /\ CoinsTotal(spends[i].coins \ {spends[i].coin})
            < spends[i].fee - CoinAmount(spends[i].coin)

CancelLast(trade, fee, spends) ==
  [NoLast EXCEPT !.op = "cancel_pending_offer_safely", !.trade_id = trade.trade_id,
                 !.fee = fee, !.spends = spends, !.result = "pending"]

cancel_pending_offer_safely(trade_id, fee, order, selected) ==
  /\ recon.pc = "idle" /\ canc.pc = "idle"
  /\ LET found == get_trade_record(trades, trade_id)
     IN IF found = None
        THEN /\ order = <<>> /\ selected = {}
             /\ UNCHANGED <<trades, txs>>
             /\ last' = [NoLast EXCEPT !.op = "cancel_pending_offer_safely",
                                       !.trade_id = trade_id, !.fee = fee]
        ELSE LET trade == CHOOSE t \in found : TRUE
                 spends == cancel_spends(order, fee, selected, 1)
             IN /\ order \in primary_orders(Offer_from_bytes(trade.offer))
                /\ IF cancel_raises(spends)
                   THEN /\ UNCHANGED <<trades, txs>>
                        /\ last' = [NoLast EXCEPT !.op = "cancel_pending_offer_safely",
                                                  !.trade_id = trade_id, !.fee = fee,
                                                  !.result = "raised"]
                   ELSE /\ txs' = cancel_safely_txs(txs, trade)
                        /\ trades' = cancel_safely_trades(trades, trade)
                        /\ last' = CancelLast(trade, fee, spends)
  /\ UNCHANGED <<made, recon, canc, resp>>

-----------------------------------------------------------------------------
(* create_offer_for_ids(offer, driver_dict, fee, validate_only) *)

\* the name of the next offer built: its content hash, new with every offer
\* because every offer pays to newly derived puzzle hashes
NextName == Len(trades) + 1

\* TradeRecord with the status of an accepted offer
TradeRecord_accepted(offer, status, is_my_offer) ==
  [trade_id |-> OfferName(offer),
   status |-> PENDING_CONFIRM,
   is_my_offer |-> is_my_offer,
   offer |-> OfferBytes(offer),
   coins_of_interest |-> get_involved_coins(offer),
   confirmed_at_index |-> Some(0)]

TradeRecord(offer, status, is_my_offer) ==
  [trade_id |-> OfferName(offer),
   status |-> status,
   is_my_offer |-> is_my_offer,
   offer |-> OfferBytes(offer),
   coins_of_interest |-> get_involved_coins(offer),
   confirmed_at_index |-> Some(0)]

\* save_trade that keeps only the record it saves
save_trade_alone(ts, trade) == <<trade>>

\* line 282
save_trade(ts, trade) == add_trade_record(ts, trade)

\* created_trades without the test of validate_only
created_trades_always(ts, trade_offer, validate_only) == save_trade(ts, trade_offer)

\* lines 313-314: the store after the call, saved to unless validate_only
created_trades(ts, trade_offer, validate_only) ==
  IF validate_only THEN ts ELSE save_trade(ts, trade_offer)

\* lines 294-296: what the caller gets when construction did not succeed
construction_failure_result == "raised"

\* the construction a call ran: its arguments and the wallet calls it made
BuiltLast(op, offer_dict, driver_dict, fee, r) ==
  [NoLast EXCEPT !.op = op, !.offer_dict = offer_dict, !.driver_dict = driver_dict,
                 !.fee = fee,
                 !.coin_queries = r.coin_queries, !.tx_fees = r.tx_fees]

create_offer_for_ids(offer_dict, driver_dict, fee, validate_only) ==
  /\ recon.pc = "idle" /\ canc.pc = "idle"
  /\ Len(trades) < MaxTrades
  /\ LET r == create_offer_for_ids_inner(offer_dict, driver_dict, fee, NextName,
                                         get_locked_coins(trades), made)
         built == BuiltLast("create_offer_for_ids", offer_dict, driver_dict, fee, r)
     IN IF ~r.success
        THEN /\ UNCHANGED trades
             /\ last' = [built EXCEPT !.result = construction_failure_result]
        ELSE /\ trades' = created_trades(trades, TradeRecord(r.offer, PENDING_ACCEPT, TRUE),
                                         validate_only)
             /\ last' = [built EXCEPT !.trade_id = OfferName(r.offer),
                                      !.result = IF validate_only THEN "validated" ELSE "saved"]
  /\ UNCHANGED <<txs, made, recon, canc, resp>>

-----------------------------------------------------------------------------
(* respond_to_offer(offer, fee) *)

AssetOrder == <<XCH, "a1", "a2", "a3">>

\* the keys of offer.arbitrage() in iteration order: requested, then offered
ArbitrageOrder(offer) ==
  LET Asked(a) == offer.requested[a] # <<>>
      Given(a) == offer.requested[a] = <<>> /\ offer.offered[a] > 0
  IN SelectSeq(AssetOrder, Asked) \o SelectSeq(AssetOrder, Given)

\* unfulfillable without the test of the amount
unfulfillable_any_amount(offer, created) ==
  \E a \in ArbitrageKeys(offer) :
    a # XCH /\ get_wallet_for_asset_id(a, created) = NoWallet

\* lines 539-547: an asset this side must supply and has no wallet for
unfulfillable(offer, created) ==
  \E a \in ArbitrageKeys(offer) :
    a # XCH /\ get_wallet_for_asset_id(a, created) = NoWallet /\ arbitrage(offer)[a] < 0

\* take_offer_dict with the amounts of the foreign offer's own side
take_offer_dict_same_side(offer) ==
  LET keys == ArbitrageOrder(offer)
  IN [i \in 1..Len(keys) |->
        [id |-> IF keys[i] = XCH THEN main_wallet.id ELSE keys[i],
         solver |-> 0 - arbitrage(offer)[keys[i]]]]

\* lines 537-550
take_offer_dict(offer) ==
  LET keys == ArbitrageOrder(offer)
  IN [i \in 1..Len(keys) |->
        [id |-> IF keys[i] = XCH THEN main_wallet.id ELSE keys[i],
         solver |-> arbitrage(offer)[keys[i]]]]

\* lines 438-447, on the ledger's reply for the non-ephemeral removals
non_ephemeral_removals(offer) ==
  {c \in removals(offer) : c \notin {SettlementOf(x) : x \in removals(offer)}}

\* check_offer_validity without the test of spent_height
check_offer_validity_known(offer, coin_states) ==
  Len(coin_states) = Cardinality(non_ephemeral_removals(offer))

\* check_offer_validity without the comparison of the lengths
check_offer_validity_unspent(offer, coin_states) ==
  \A i \in 1..Len(coin_states) : coin_states[i].spent_height = None

check_offer_validity(offer, coin_states) ==
  /\ Len(coin_states) = Cardinality(non_ephemeral_removals(offer))
  /\ \A i \in 1..Len(coin_states) : coin_states[i].spent_height = None

\* lines 427-436: the assets of the offer that get a wallet made for them
maybe_create_wallets_for_offer(offer, created) ==
  created \cup {a \in ArbitrageKeys(offer) \ {XCH} :
                  get_wallet_for_asset_id(a, created) = NoWallet}

\* lines 586-604: the dummy transaction that pushes the settlement bundle
push_tx(offer) ==
  [name |-> <<"OUTGOING_TRADE", "push", OfferName(offer), "0">>,
   trade_id |-> Some(0),
   confirmed |-> FALSE,
   confirmed_at_height |-> Some(0)]

\* respond_writes with the bundle pushed before the trade record is saved
respond_writes_push_first ==
  <<{"add_pending_transaction"}, {"save_trade", "add_transaction"}>>

\* lines 583-606: the writes of a successful call, grouped by the awaits
\* between them: the trade record first, then the pushed bundle and the
\* transaction records
respond_writes == <<{"save_trade"}, {"add_pending_transaction", "add_transaction"}>>

respond_trades(ts, complete_offer, writes) ==
  IF "save_trade" \in writes
  THEN save_trade(ts, TradeRecord(complete_offer, PENDING_CONFIRM, FALSE))
  ELSE ts

respond_txs(store, complete_offer, writes) ==
  LET pushed == IF "add_pending_transaction" \in writes
                THEN add_transaction(store, push_tx(complete_offer))
                ELSE store
  IN IF "add_transaction" \in writes
     THEN add_transactions(pushed, calculate_tx_records_for_offer(complete_offer, TRUE))
     ELSE pushed

\* the offer and the ledger's reply a call was given
RespondLast(offer, coin_states) ==
  [NoLast EXCEPT !.op = "respond_to_offer", !.offer = OfferName(offer),
                 !.coin_states = coin_states]

\* lines 537-563: "" when the aggregated offer is ready, or why the call fails
respond_failure(offer, coin_states, r, complete_offer) ==
  IF unfulfillable(offer, made) THEN "no wallet"
  ELSE IF ~check_offer_validity(offer, coin_states) THEN "no longer valid"
  ELSE IF ~r.success THEN "construction"
  ELSE IF ~is_valid(complete_offer) THEN "raised"
  ELSE ""

\* what the call leaves in last: the construction too, when it was run
RespondDone(offer, fee, coin_states, r, complete_offer) ==
  LET why == respond_failure(offer, coin_states, r, complete_offer)
      seen == RespondLast(offer, coin_states)
      built == [seen EXCEPT !.offer_dict = take_offer_dict(offer),
                            !.driver_dict = offer.driver_dict, !.fee = fee,
                            !.coin_queries = r.coin_queries, !.tx_fees = r.tx_fees]
  IN IF why \in {"no wallet", "no longer valid"} THEN [seen EXCEPT !.result = why]
     ELSE IF why # "" THEN [built EXCEPT !.result = why]
     ELSE [built EXCEPT !.trade_id = OfferName(complete_offer), !.result = "saved"]

respond_to_offer(offer, fee, coin_states) ==
  /\ recon.pc = "idle" /\ canc.pc = "idle" /\ resp.pc = "idle"
  /\ Len(trades) < MaxTrades
  /\ LET r == create_offer_for_ids_inner(take_offer_dict(offer), offer.driver_dict, fee,
                                         0, get_locked_coins(trades), made)
         complete_offer == Offer_aggregate(NextName, offer, r.offer)
         writes == respond_writes[1] \cup respond_writes[2]
     IN /\ IF respond_failure(offer, coin_states, r, complete_offer) # ""
           THEN UNCHANGED <<trades, txs, made>>
           ELSE /\ made' = maybe_create_wallets_for_offer(complete_offer, made)
                /\ trades' = respond_trades(trades, complete_offer, writes)
                /\ txs' = respond_txs(txs, complete_offer, writes)
        /\ last' = RespondDone(offer, fee, coin_states, r, complete_offer)
  /\ UNCHANGED <<recon, canc, resp>>

-----------------------------------------------------------------------------
(* Serialized execution: every call runs to completion *)

Next ==
  \/ \E coin_state \in CoinStateEvents : coins_of_interest_farmed(coin_state)
  \/ \E trade_id \in 1..MaxTrades : cancel_pending_offer(trade_id)
  \/ \E trade_id \in 1..MaxTrades, order \in LifecycleOrders :
       cancel_pending_offer_safely(trade_id, 0, order, {})
  \/ \E offer_dict \in LifecycleMaps, driver_dict \in LifecycleDrivers, fee \in Fees,
        validate_only \in BOOLEAN :
       create_offer_for_ids(offer_dict, driver_dict, fee, validate_only)
  \/ \E offer \in LifecycleOffers, fee \in Fees :
       \E coin_states \in get_coin_state(non_ephemeral_removals(offer)) :
         respond_to_offer(offer, fee, coin_states)

Spec == Init /\ [][Next]_vars

-----------------------------------------------------------------------------
(* Interleaved execution: coins_of_interest_farmed and                      *)
(* cancel_pending_offer_safely suspend at their awaits (the store read, the *)
(* ledger query, the wallet calls) and other handlers run in between.       *)

\* most trade records the store holds when handlers interleave
MaxAsyncTrades == 1

AsyncMaps == {<<Entry("1", 0 - 1), Entry("a1", 1)>>}
AsyncOffers == {ForeignOffer(101, "a1", 1, XCH, 1, RightInfo)}

InFlight(pc, trade, coin_state, coin_states) ==
  [pc |-> pc, trade |-> trade, coin_state |-> coin_state, coin_states |-> coin_states]

\* line 128: the trade record is read
farmed_read(coin_state) ==
  /\ recon.pc = "idle"
  /\ LET found == get_trade_by_coin(trades, coin_state.coin)
     IN IF found = None
        THEN /\ UNCHANGED recon
             /\ last' = [NoLast EXCEPT !.op = "coins_of_interest_farmed",
                                       !.coin = coin_state.coin,
                                       !.spent_height = coin_state.spent_height]
        ELSE /\ recon' = InFlight("read", found, Some(coin_state), <<>>)
             /\ UNCHANGED last
  /\ UNCHANGED <<trades, txs, made, canc, resp>>

\* lines 136-151: the ledger is asked for the settlement payments of this side
farmed_query ==
  /\ recon.pc = "read"
  /\ LET trade == CHOOSE t \in recon.trade : TRUE
     IN \E coin_states \in get_coin_state(our_settlement_ids(Offer_from_bytes(trade.offer))) :
          recon' = [recon EXCEPT !.pc = "queried", !.coin_states = coin_states]
  /\ UNCHANGED <<trades, txs, made, canc, resp, last>>

\* lines 153-173: the status and the transactions are written
farmed_write ==
  /\ recon.pc = "queried"
  /\ LET trade == CHOOSE t \in recon.trade : TRUE
         coin_state == CHOOSE e \in recon.coin_state : TRUE
     IN /\ trades' = farmed_trades(trades, trade, recon.coin_states)
        /\ txs' = farmed_txs(txs, trade, recon.coin_states)
        /\ last' = FarmedLast(trade, coin_state, recon.coin_states)
  /\ recon' = Idle
  /\ UNCHANGED <<made, canc, resp>>

\* line 214: the trade record is read
cancel_safely_read(trade_id) ==
  /\ canc.pc = "idle"
  /\ LET found == get_trade_record(trades, trade_id)
     IN IF found = None
        THEN /\ UNCHANGED canc
             /\ last' = [NoLast EXCEPT !.op = "cancel_pending_offer_safely",
                                       !.trade_id = trade_id]
        ELSE /\ canc' = InFlight("read", found, None, <<>>)
             /\ UNCHANGED last
  /\ UNCHANGED <<trades, txs, made, recon, resp>>

\* lines 274-277: after the wallet calls, the transactions and the status
cancel_safely_write ==
  /\ canc.pc = "read"
  /\ LET trade == CHOOSE t \in canc.trade : TRUE
     IN /\ txs' = cancel_safely_txs(txs, trade)
        /\ trades' = cancel_safely_trades(trades, trade)
        /\ last' = CancelLast(trade, 0,
                     cancel_spends(CHOOSE order \in sorted_orders(Offer_from_bytes(trade.offer)) :
                                     TRUE, 0, {}, 1))
  /\ canc' = Idle
  /\ UNCHANGED <<made, recon, resp>>

\* lines 536-583: the checks, the construction and the first writes
respond_begin(offer, fee, coin_states) ==
  /\ resp.pc = "idle"
  /\ LET r == create_offer_for_ids_inner(take_offer_dict(offer), offer.driver_dict, fee,
                                         0, get_locked_coins(trades), made)
         complete_offer == Offer_aggregate(NextName, offer, r.offer)
         done == RespondDone(offer, fee, coin_states, r, complete_offer)
     IN IF respond_failure(offer, coin_states, r, complete_offer) # ""
        THEN /\ UNCHANGED <<trades, txs, made, resp>>
             /\ last' = done
        ELSE /\ made' = maybe_create_wallets_for_offer(complete_offer, made)
             /\ trades' = respond_trades(trades, complete_offer, respond_writes[1])
             /\ txs' = respond_txs(txs, complete_offer, respond_writes[1])
             /\ resp' = [pc |-> "begun", offer |-> Some(complete_offer), done |-> done]
             /\ UNCHANGED last
  /\ UNCHANGED <<recon, canc>>

\* lines 586-608: the remaining writes
respond_submit ==
  /\ resp.pc = "begun"
  /\ LET complete_offer == CHOOSE o \in resp.offer : TRUE
     IN /\ trades' = respond_trades(trades, complete_offer, respond_writes[2])
        /\ txs' = respond_txs(txs, complete_offer, respond_writes[2])
  /\ last' = resp.done
  /\ resp' = NoResponse
  /\ UNCHANGED <<made, recon, canc>>

NextAsync ==
  \/ \E coin_state \in CoinStateEvents : farmed_read(coin_state)
  \/ farmed_query
  \/ farmed_write
  \/ \E trade_id \in 1..MaxAsyncTrades : cancel_safely_read(trade_id)
  \/ cancel_safely_write
  \/ \E trade_id \in 1..MaxAsyncTrades : cancel_pending_offer(trade_id)
  \/ \E offer_dict \in AsyncMaps, fee \in Fees, validate_only \in BOOLEAN :
       /\ Len(trades) < MaxAsyncTrades
       /\ create_offer_for_ids(offer_dict, NoDrivers, fee, validate_only)
  \/ \E offer \in AsyncOffers, fee \in Fees :
       \E coin_states \in get_coin_state(non_ephemeral_removals(offer)) :
         /\ Len(trades) < MaxAsyncTrades
         /\ respond_begin(offer, fee, coin_states)
  \/ respond_submit

SpecAsync == Init /\ [][NextAsync]_vars

-----------------------------------------------------------------------------
(* Construction: one call of create_offer_for_ids or respond_to_offer on a   *)
(* newly created manager, over every offer map, driver dictionary and       *)
(* foreign offer of the bounds.                                             *)

NextBuild ==
  \/ \E offer_dict \in OfferMaps, driver_dict \in DriverDicts, fee \in Fees,
        validate_only \in BOOLEAN :
       /\ last = NoLast
       /\ create_offer_for_ids(offer_dict, driver_dict, fee, validate_only)
  \/ \E offer \in ForeignOffers, fee \in Fees :
       \E coin_states \in get_coin_state(non_ephemeral_removals(offer)) :
         /\ last = NoLast
         /\ respond_to_offer(offer, fee, coin_states)

SpecBuild == Init /\ [][NextBuild]_vars

-----------------------------------------------------------------------------
(* Cancellation: offers are created and accepted without a fee, and          *)
(* cancel_pending_offer_safely is called with every fee, every order of the  *)
(* primary coins and every reply of wallet.select_coins.                    *)

NextCancel ==
  \/ \E offer_dict \in LifecycleMaps :
       create_offer_for_ids(offer_dict, NoDrivers, 0, FALSE)
  \/ \E offer \in LifecycleOffers :
       \E coin_states \in get_coin_state(non_ephemeral_removals(offer)) :
         respond_to_offer(offer, 0, coin_states)
  \/ \E trade_id \in 1..MaxTrades, fee \in CancelFees, order \in Orders,
        selected \in SUBSET SpareCoins :
       cancel_pending_offer_safely(trade_id, fee, order, selected)

SpecCancel == Init /\ [][NextCancel]_vars

-----------------------------------------------------------------------------
(* Properties.  A step of coins_of_interest_farmed that found a trade is    *)
(* told by the call it leaves in last; the trade's status before the step   *)
(* is its status in the unprimed store.                                     *)

FarmedStep == last'.op = "coins_of_interest_farmed" /\ last'.trade_id # 0
Before == StatusOf(trades, last'.trade_id)
After == StatusOf(trades', last'.trade_id)

\* C1: for a trade in PENDING_CONFIRM, an event showing a counterpart coin
\* spent while none of this side's settlement payments is spent sets the
\* status to FAILED, never to CONFIRMED.
C1_CounterpartSpentFails ==
  [][(/\ FarmedStep
      /\ Before = PENDING_CONFIRM
      /\ last'.coin \in TheirCoins
      /\ last'.spent_height # None
      /\ ~last'.ours_spent)
     => After = FAILED]_vars

\* C2: coins_of_interest_farmed writes CONFIRMED only if one of this side's
\* settlement payments has a coin state with a non-null spent height.
C2_ConfirmedOnlyIfOursSpent ==
  [][(FarmedStep /\ After = CONFIRMED /\ last'.success) => last'.ours_spent]_vars

\* C3: coins_of_interest_farmed changes the status of a trade only when that
\* status is PENDING_ACCEPT, PENDING_CONFIRM or PENDING_CANCEL; CONFIRMED,
\* CANCELLED and FAILED stay as they are under any event.
C3_TerminalStatusKept ==
  [][last'.op = "coins_of_interest_farmed"
     => \A i \in 1..Len(trades) :
          trades'[i].status # trades[i].status => trades[i].status \in PendingStatuses]_vars

\* C4: the same confirming event delivered a second time leaves the trade
\* CONFIRMED and the stored transaction records as the first delivery left them.
C4_RepeatedConfirmIdempotent ==
  [][(FarmedStep /\ last'.repeat) => (After = CONFIRMED /\ txs' = txs)]_vars

C4_Witness ==
  /\ last.op = "coins_of_interest_farmed"
  /\ last.repeat
  /\ StatusOf(trades, last.trade_id) = CONFIRMED
  /\ \E tx \in txs : tx.trade_id = Some(last.trade_id)

\* C5: the failure branch is taken only for a spent coin: a call whose event
\* has a null spent_height, finding none of this side's settlement payments,
\* changes no trade's status and deletes no transaction.
C5_UnspentEventChangesNothing ==
  [][(FarmedStep /\ last'.spent_height = None /\ ~last'.success)
     => /\ \A i \in 1..Len(trades) : trades'[i].status = trades[i].status
        /\ txs \subseteq txs']_vars

\* the three parts of C6; only is the test a step that takes PENDING_CANCEL to
\* CANCELLED has to pass
C6_Parts(only(_)) ==
  /\ (last'.op = "cancel_pending_offer_safely" /\ last'.result = "pending")
       => After = PENDING_CANCEL
  /\ \A i \in 1..Len(trades) :
       (trades[i].status = PENDING_CANCEL /\ trades'[i].status = CANCELLED)
         => only(trades[i].trade_id)
  /\ (FarmedStep /\ Before = PENDING_CANCEL)
       => /\ After # FAILED
          /\ ~last'.success => After = CANCELLED

FarmedFoundNoneSpent(trade_id) ==
  FarmedStep /\ last'.trade_id = trade_id /\ ~last'.success /\ ~last'.ours_spent

FarmedOrUnsafeCancel(trade_id) ==
  \/ FarmedFoundNoneSpent(trade_id)
  \/ last'.op = "cancel_pending_offer" /\ last'.trade_id = trade_id

C10_FailureIsReturned ==
  [][(last'.op = "create_offer_for_ids" /\ last'.result \notin {"saved", "validated"})
     => /\ last'.result = "failure"
        /\ trades' = trades
        /\ get_locked_coins(trades') = get_locked_coins(trades)]_vars

\* C7: a coins_of_interest_farmed call that finds a settlement payment of
\* this side spent takes PENDING_CANCEL to CONFIRMED, and a
\* cancel_pending_offer_safely call that read the trade before CONFIRMED was
\* written does not overwrite CONFIRMED.
C7_ConfirmedNotOverwritten ==
  [][/\ (recon.pc = "queried" /\ recon'.pc = "idle" /\ last'.ours_spent
         /\ (CHOOSE t \in recon.trade : TRUE).status = PENDING_CANCEL)
          => After = CONFIRMED
     /\ (canc.pc = "read" /\ canc'.pc = "idle"
         /\ (CHOOSE t \in canc.trade : TRUE).status # CONFIRMED
         /\ Before = CONFIRMED)
          => After = CONFIRMED]_vars

\* C8: every status write of coins_of_interest_farmed agrees with the trade's
\* status in the store when it is written: a trade that cancel_pending_offer
\* marked CANCELLED after the call read it stays CANCELLED.
C8_WriteAgreesWithStore ==
  [][(recon.pc = "queried" /\ recon'.pc = "idle")
     => LET current == CHOOSE t \in get_trade_record(trades, last'.trade_id) : TRUE
        IN trades' = IF current.status = CANCELLED THEN trades
                     ELSE farmed_trades(trades, current, recon.coin_states)]_vars

-----------------------------------------------------------------------------
(* Properties of offer construction.  last holds the arguments of the       *)
(* construction the last call ran and the wallet calls it made.             *)

Constructed == last.op \in {"create_offer_for_ids", "respond_to_offer"}

\* the asset an entry of the offer map stands for
EntryAsset(id) ==
  IF IsInt(id)
  THEN (IF Wallets[id].type = STANDARD_WALLET THEN XCH ELSE Wallets[id].asset)
  ELSE id

\* the offer of the trade record the last call saved
SavedOffer == Offer_from_bytes((CHOOSE t \in get_trade_record(trades, last.trade_id) : TRUE).offer)

\* C11: with fee > 0 and an offered entry, the first offered entry receives
\* the fee in get_coins_to_offer and in create_offer_transactions, and every
\* other entry receives fee 0 in both calls.
C11_FeeHasOneOwner ==
  (Constructed /\ last.fee > 0 /\ last.tx_fees # <<>>)
    => /\ Len(last.tx_fees) = Len(last.coin_queries)
       /\ \A i \in 1..Len(last.coin_queries) :
            /\ last.tx_fees[i].id = last.coin_queries[i].id
            /\ last.coin_queries[i].fee = (IF i = 1 THEN last.fee ELSE 0)
            /\ last.tx_fees[i].fee = (IF i = 1 THEN last.fee ELSE 0)

\* C12: an offer map with a zero amount makes create_offer_for_ids fail
\* without any get_coins_to_offer call, wherever the zero entry stands.
C12_ZeroAmountQueriesNoCoin ==
  (last.op = "create_offer_for_ids"
   /\ \E i \in 1..Len(last.offer_dict) : last.offer_dict[i].solver = 0)
    => /\ last.result \notin {"saved", "validated"}
       /\ last.coin_queries = <<>>

\* C13: the requested payments of a constructed offer hold, for every asset,
\* one payment per requested entry of the offer map that stands for the asset.
C13_RequestsAreMerged ==
  (last.op = "create_offer_for_ids" /\ last.result = "saved")
    => \A a \in Assets :
         Len(SavedOffer.requested[a])
           = Cardinality({i \in 1..Len(last.offer_dict) :
                            /\ last.offer_dict[i].solver > 0
                            /\ EntryAsset(last.offer_dict[i].id) = a})

\* C14: a successful create_offer_for_ids without validate_only adds exactly
\* one trade record: PENDING_ACCEPT, is_my_offer, trade_id the offer's name,
\* coins_of_interest the coins involved in the offer.
C14_CreatedOfferIsPersisted ==
  [][(last'.op = "create_offer_for_ids" /\ last'.result = "saved")
     => /\ Len(trades') = Len(trades) + 1
        /\ SubSeq(trades', 1, Len(trades)) = trades
        /\ LET t == trades'[Len(trades')]
               offer == Offer_from_bytes(t.offer)
           IN /\ t.status = PENDING_ACCEPT
              /\ t.is_my_offer
              /\ t.trade_id = OfferName(offer)
              /\ t.trade_id = last'.trade_id
              /\ t.coins_of_interest = get_involved_coins(offer)]_vars

C14_Witness ==
  /\ last.op = "create_offer_for_ids"
  /\ last.result = "saved"
  /\ StatusOf(trades, last.trade_id) = PENDING_ACCEPT
  /\ get_involved_coins(SavedOffer) # {}

\* C15: create_offer_for_ids with validate_only returns the trade record and
\* leaves the store as it was: no record added, get_coins_of_interest and
\* get_locked_coins as before.
C15_ValidateOnlyPersistsNothing ==
  [][(last'.op = "create_offer_for_ids" /\ last'.result = "validated")
     => /\ last'.trade_id # 0
        /\ trades' = trades
        /\ get_coins_of_interest(trades') = get_coins_of_interest(trades)
        /\ get_locked_coins(trades') = get_locked_coins(trades)]_vars

C15_Witness ==
  /\ last.op = "create_offer_for_ids"
  /\ last.result = "validated"
  /\ last.coin_queries # <<>>
  /\ get_trade_record(trades, last.trade_id) = None

-----------------------------------------------------------------------------
(* Properties of respond_to_offer.  last holds the name of the offer the    *)
(* call was given and the ledger's reply to its validity check.             *)

Responded == last.op = "respond_to_offer"
RespondedStep == last'.op = "respond_to_offer" /\ last' # last

\* the foreign offer of a name
ForeignOfferNamed(name) == CHOOSE o \in ForeignOffers : OfferName(o) = name

\* the reply has an unspent coin state for the coin
KnownUnspent(coin_states, c) ==
  \E i \in 1..Len(coin_states) :
    coin_states[i].coin = c /\ coin_states[i].spent_height = None

\* C16: when a non-ephemeral coin the foreign offer spends is spent or unknown,
\* respond_to_offer fails without a get_coins_to_offer call, without a trade
\* record, without a transaction, and leaves the manager's state as it was.
C16_StaleOfferIsRefusedFirst ==
  [][(/\ RespondedStep
      /\ \E c \in non_ephemeral_removals(ForeignOfferNamed(last'.offer)) :
           ~KnownUnspent(last'.coin_states, c))
     => /\ last'.result \in {"no wallet", "no longer valid"}
        /\ last'.coin_queries = <<>>
        /\ last'.tx_fees = <<>>
        /\ UNCHANGED <<trades, txs, made>>]_vars

C16_Witness ==
  /\ Responded
  /\ last.result = "no longer valid"
  /\ \E i \in 1..Len(last.coin_states) : last.coin_states[i].spent_height # None

\* C17: respond_to_offer fails, with nothing persisted or submitted, exactly
\* for an asset of negative net amount without a wallet; an asset of
\* non-negative net amount without a wallet does not make it fail so.
C17_UnfulfillableOfferFails ==
  [][RespondedStep
     => LET offer == ForeignOfferNamed(last'.offer)
            needs == \E a \in ArbitrageKeys(offer) \ {XCH} :
                       /\ arbitrage(offer)[a] < 0
                       /\ get_wallet_for_asset_id(a, made) = NoWallet
        IN /\ needs => (last'.result = "no wallet" /\ UNCHANGED <<trades, txs, made>>)
           /\ last'.result = "no wallet" => needs]_vars

C17_Witness ==
  /\ Responded
  /\ last.result = "no wallet"
  /\ trades = <<>>

\* C18: a successful respond_to_offer saves a trade record PENDING_CONFIRM
\* with is_my_offer false, and saves it before it submits the settlement
\* bundle: in every state a submitted bundle has a trade record of its offer.
C18_RecordBeforeSubmission ==
  [][/\ (resp.pc = "idle" /\ resp'.pc = "begun")
          => /\ Len(trades') = Len(trades) + 1
             /\ trades'[Len(trades')].status = PENDING_CONFIRM
             /\ ~trades'[Len(trades')].is_my_offer
     /\ \A tx \in txs' :
          tx.name[2] = "push" => get_trade_record(trades', tx.name[3]) # None]_vars

C18_Witness ==
  /\ Responded
  /\ last.result = "saved"
  /\ resp.pc = "idle"
  /\ StatusOf(trades, last.trade_id) = PENDING_CONFIRM
  /\ \E tx \in txs : tx.name[2] = "push" /\ tx.name[3] = last.trade_id

\* C19: for a foreign offer that passes the wallet and freshness checks and
\* whose complement is constructed, the aggregated offer is valid: the
\* assertion on it never fails.
C19_AggregateIsValid == Responded => last.result # "raised"

C19_Witness ==
  /\ Responded
  /\ last.result = "saved"
  /\ is_valid(SavedOffer)
  /\ SavedOffer.ephemeral # {}

\* C20: check_offer_validity is true exactly when every non-ephemeral coin the
\* offer's bundle removes has an unspent coin state; ephemeral coins do not
\* count.
C20_ValidIffKnownUnspent ==
  (Responded /\ last.result # "no wallet")
    => (last.result # "no longer valid"
          <=> \A c \in non_ephemeral_removals(ForeignOfferNamed(last.offer)) :
                KnownUnspent(last.coin_states, c))

C20_Witness ==
  /\ Responded
  /\ last.result = "saved"
  /\ ForeignOfferNamed(last.offer).ephemeral # {}

-----------------------------------------------------------------------------
(* Properties of the stored records *)

\* the record the store holds under a trade id
Record(ts, trade_id) == CHOOSE t \in get_trade_record(ts, trade_id) : TRUE

\* the trades of the store in one of the three pending statuses
PendingIndexes(ts) == {i \in 1..Len(ts) : ts[i].status \in PendingStatuses}

\* C21: in cancel_pending_offer_safely the first primary coin with a wallet is
\* spent with the whole fee and every later coin with fee 0; a standard-wallet
\* coin worth less than the fee is spent together with further coins that
\* cover the shortfall, the inputs add up to the reassigned amount plus the
\* fee, the reassigned amount is not negative, and every coin goes to a newly
\* derived puzzle hash.
C21_CancelFeePaidOnce ==
  (last.op = "cancel_pending_offer_safely" /\ last.result = "pending")
    => /\ {last.spends[i].coin : i \in 1..Len(last.spends)}
            = {c \in get_primary_coins(SavedOffer) : get_wallet_for_coin(c) # NoWallet}
       /\ \A i \in 1..Len(last.spends) :
            LET spend == last.spends[i]
            IN /\ spend.fee = (IF i = 1 THEN last.fee ELSE 0)
               /\ spend.coin \in spend.coins
               /\ spend.amount >= 0
               /\ spend.puzzle_hash # PuzzleHashOf(spend.coin)
               /\ \A j \in 1..Len(last.spends) : last.spends[j].coin = spend.coin => j = i
               /\ Wallets[spend.wallet].type = STANDARD_WALLET
                    => /\ CoinsTotal(spend.coins) = spend.amount + spend.fee
                       /\ CoinAmount(spend.coin) < spend.fee
                            => CoinsTotal(spend.coins \ {spend.coin})
                                 >= spend.fee - CoinAmount(spend.coin)

C21_Witness ==
  /\ last.op = "cancel_pending_offer_safely"
  /\ last.result = "pending"
  /\ last.fee > CoinAmount(1)
  /\ Len(last.spends) = 2
  /\ last.spends[1].coin = 1
  /\ Cardinality(last.spends[1].coins) > 1
  /\ last.spends[2].fee = 0
  /\ StatusOf(trades, last.trade_id) = PENDING_CANCEL

\* C22: whenever coins_of_interest_farmed takes a trade from a pending status
\* to CONFIRMED, the transaction records of the offer are stored as confirmed
\* at the confirmation height, whichever pending status the trade had.
C22_ConfirmedRecordsStored ==
  [][(FarmedStep /\ Before \in PendingStatuses /\ After = CONFIRMED)
     => \A tx \in calculate_tx_records_for_offer(
                    Offer_from_bytes(Record(trades', last'.trade_id).offer), FALSE) :
          \E stored \in txs' :
            /\ stored.name[1] = tx.name[1]
            /\ stored.name[3] = tx.name[3]
            /\ stored.name[4] = tx.name[4]
            /\ stored.trade_id = tx.trade_id
            /\ stored.confirmed
            /\ stored.confirmed_at_height
                 = Record(trades', last'.trade_id).confirmed_at_index]_vars

\* C23: an event for a coin that no trade other than CANCELLED ones watches is
\* ignored: no status changes and no transaction record is added or deleted.
C23_UnwatchedCoinIgnored ==
  [][(/\ last'.op = "coins_of_interest_farmed"
      /\ ~ \E i \in 1..Len(trades) :
             trades[i].status # CANCELLED /\ last'.coin \in trades[i].coins_of_interest)
     => (trades' = trades /\ txs' = txs)]_vars

C23_Witness ==
  /\ last.op = "coins_of_interest_farmed"
  /\ last.trade_id = 0
  /\ txs # {}
  /\ \E i \in 1..Len(trades) :
       trades[i].status = CANCELLED /\ last.coin \in trades[i].coins_of_interest

\* an entry whose asset has a wallet that reports a puzzle info different from
\* the one driver_dict holds for the asset
DriverConflict(offer_dict, driver_dict, created) ==
  \E i \in 1..Len(offer_dict) :
    LET id == offer_dict[i].id
        asset_id == EntryAsset(id)
        wallet == IF IsInt(id) THEN Wallets[id] ELSE get_wallet_for_asset_id(id, created)
    IN /\ asset_id # XCH
       /\ wallet # NoWallet
       /\ "get_puzzle_info" \in wallet.caps
       /\ driver_dict[asset_id] # NoDriver
       /\ driver_dict[asset_id] # PuzzleInfoOf(asset_id)

\* C24: when driver_dict holds, for the asset of an entry, a puzzle info other
\* than the one the asset's wallet reports, the construction fails; and in the
\* offer of a successful construction the asset of every entry with a resolved
\* wallet and a non-null asset id maps to the puzzle info its wallet reports.
C24_DriverConflictFails ==
  /\ (last.op = "create_offer_for_ids"
        /\ DriverConflict(last.offer_dict, last.driver_dict, made))
       => last.result = construction_failure_result
  /\ (last.op = "respond_to_offer"
        /\ DriverConflict(last.offer_dict, last.driver_dict, {}))
       => last.result = "construction"
  /\ (last.op = "create_offer_for_ids" /\ last.result = "saved")
       => \A i \in 1..Len(last.offer_dict) :
            LET id == last.offer_dict[i].id
                wallet == IF IsInt(id) THEN Wallets[id]
                          ELSE get_wallet_for_asset_id(id, made)
            IN (EntryAsset(id) # XCH /\ wallet # NoWallet)
                 => SavedOffer.driver_dict[EntryAsset(id)] = PuzzleInfoOf(EntryAsset(id))

C24_Witness ==
  /\ last.op = "create_offer_for_ids"
  /\ DriverConflict(last.offer_dict, last.driver_dict, made)
  /\ last.coin_queries # <<>>
  /\ last.result = construction_failure_result

\* C25: no operation removes a trade record, and the trade id, the offer
\* bytes, is_my_offer and coins_of_interest of a stored record never change;
\* only the status and the confirmation height do.
C25_RecordsKept ==
  [][/\ Len(trades') >= Len(trades)
     /\ \A i \in 1..Len(trades) :
          /\ trades'[i].trade_id = trades[i].trade_id
          /\ trades'[i].offer = trades[i].offer
          /\ trades'[i].is_my_offer = trades[i].is_my_offer
          /\ trades'[i].coins_of_interest = trades[i].coins_of_interest]_vars

C25_Witness ==
  /\ Len(trades) = 2
  /\ trades[1].status \in TerminalStatuses
  /\ trades[1].confirmed_at_index # Some(0)
  /\ trades[2].status = PENDING_CANCEL

\* C26: the height recorded when a trade becomes CONFIRMED is the spent height
\* of a settlement coin of this side that was spent; it is never null.
C26_ConfirmedHeightIsSpentHeight ==
  [][(FarmedStep /\ last'.success /\ last'.ours_spent)
     => Record(trades', last'.trade_id).confirmed_at_index
          \in {Some(h) : h \in 1..MaxHeight}]_vars

\* C27: get_coins_of_interest is exactly the union of coins_of_interest over
\* the trades in PENDING_ACCEPT, PENDING_CONFIRM or PENDING_CANCEL, and
\* get_locked_coins holds only coins involved in such trades.
C27_OnlyPendingTradesWatched ==
  /\ get_coins_of_interest(trades)
       = UNION {trades[i].coins_of_interest : i \in PendingIndexes(trades)}
  /\ \A c \in get_locked_coins(trades) :
       \E i \in PendingIndexes(trades) :
         c \in get_involved_coins(Offer_from_bytes(trades[i].offer))

C27_Witness ==
  /\ get_locked_coins(trades) # {}
  /\ \E i \in 1..Len(trades) :
       /\ trades[i].status = CONFIRMED
       /\ ~ (trades[i].coins_of_interest \subseteq get_coins_of_interest(trades))

\* C28: cancel_pending_offer and cancel_pending_offer_safely called on a trade
\* that is CONFIRMED, CANCELLED or FAILED leave its status as it is.
C28_CancelKeepsTerminalStatus ==
  [][(/\ last'.op \in {"cancel_pending_offer", "cancel_pending_offer_safely"}
      /\ Before \in TerminalStatuses)
     => After = Before]_vars

\* C29: when some pending trade watches the coin of the event, the trade that
\* coins_of_interest_farmed reconciles is a pending trade watching that coin,
\* even if a CONFIRMED or FAILED trade watching it comes earlier in the store.
C29_PendingTradeReconciled ==
  [][(/\ last'.op = "coins_of_interest_farmed"
      /\ \E i \in PendingIndexes(trades) : last'.coin \in trades[i].coins_of_interest)
     => (last'.trade_id # 0 /\ Before \in PendingStatuses)]_vars

\* C30: for a CONFIRMED trade no later event deletes the transaction records
\* of the trade.
C30_ConfirmedRecordsKept ==
  [][(FarmedStep /\ Before = CONFIRMED)
     => {tx \in txs : tx.trade_id = Some(last'.trade_id)} \subseteq txs']_vars

====
